---- MODULE Spec2Model ----
(***************************************************************************)
(* winstonjson (src/src/main.rs): read a file line by line, decode each    *)
(* line as a LogLine, print the formatted and coloured record, or the raw  *)
(* line when it does not decode.                                           *)
(*                                                                         *)
(* Text is a sequence of one-character strings.  The byte 0x1B (ESC) that  *)
(* starts an ANSI sequence is the single element ESC; backspace and form   *)
(* feed are the elements BS and FF.                                        *)
(***************************************************************************)
EXTENDS Integers, Sequences, FiniteSets

\* f applied to the value of e, which is computed once: Bind(e, f) = f(e).
Bind(e, f(_)) == CHOOSE y \in {f(x) : x \in {e}} : TRUE

(***************************************************************************)
(* Characters                                                              *)
(***************************************************************************)
ESC == "<ESC>"
\* Backspace (0x08) and form feed (0x0C).
BS == "<BS>"
FF == "<FF>"
\* The grave accent (0x60), which a TLA+ string cannot hold.
GRAVE == "<GRAVE>"
QUOTE == "\""
BACKSLASH == "\\"
NEWLINE == "\n"
TAB == "\t"
CR == "\r"

Digits == <<"0", "1", "2", "3", "4", "5", "6", "7", "8", "9">>
DigitSet == {"0", "1", "2", "3", "4", "5", "6", "7", "8", "9"}

\* The value of a decimal digit character.
DigitVal(c) == (CHOOSE i \in 1..10 : Digits[i] = c) - 1

\* The hexadecimal digits, lower and upper case, in the order of their values.
HexLower == <<"0", "1", "2", "3", "4", "5", "6", "7", "8", "9", "a", "b", "c", "d", "e", "f">>
HexUpper == <<"0", "1", "2", "3", "4", "5", "6", "7", "8", "9", "A", "B", "C", "D", "E", "F">>
HexSet == {HexLower[i] : i \in 1..16} \cup {HexUpper[i] : i \in 1..16}
HexVal(c) == (CHOOSE i \in 1..16 : HexLower[i] = c \/ HexUpper[i] = c) - 1

\* Printable ASCII in code order, 0x20 .. 0x7E.
Ascii ==
  <<" ", "!", "\"", "#", "$", "%", "&", "'", "(", ")", "*", "+", ",", "-", ".", "/",
    "0", "1", "2", "3", "4", "5", "6", "7", "8", "9", ":", ";", "<", "=", ">", "?",
    "@", "A", "B", "C", "D", "E", "F", "G", "H", "I", "J", "K", "L", "M", "N", "O",
    "P", "Q", "R", "S", "T", "U", "V", "W", "X", "Y", "Z", "[", "\\", "]", "^", "_",
    GRAVE, "a", "b", "c", "d", "e", "f", "g", "h", "i", "j", "k", "l", "m", "n", "o",
    "p", "q", "r", "s", "t", "u", "v", "w", "x", "y", "z", "{", "|", "}", "~">>

\* The byte value of a character of the input alphabet.
Code(c) ==
  IF c = BS THEN 8
  ELSE IF c = FF THEN 12
  ELSE IF c = TAB THEN 9
  ELSE IF c = NEWLINE THEN 10
  ELSE IF c = CR THEN 13
  ELSE IF c = ESC THEN 27
  ELSE 31 + (CHOOSE i \in 1..Len(Ascii) : Ascii[i] = c)

\* The codes of the characters of the alphabet.
Codes == {8, 9, 10, 12, 13, 27} \cup 32..126

\* The character of a code of the alphabet.
CharOf(n) ==
  IF n = 8 THEN BS
  ELSE IF n = 12 THEN FF
  ELSE IF n = 9 THEN TAB
  ELSE IF n = 10 THEN NEWLINE
  ELSE IF n = 13 THEN CR
  ELSE IF n = 27 THEN ESC
  ELSE Ascii[n - 31]

\* Byte-wise lexicographic order of two texts (Rust's Ord for String):
\* equal up to index i, where a has ended or holds the smaller byte.
StrLess(a, b) ==
  \E i \in 1..Len(b) :
    /\ \A k \in 1..(i - 1) : k <= Len(a) /\ a[k] = b[k]
    /\ (i > Len(a) \/ (a[i] # b[i] /\ Code(a[i]) < Code(b[i])))

\* s[i..j], empty when i > j.
Slice(s, i, j) == SubSeq(s, i, j)

\* Whether text p occurs in s starting at index i.
StartsAt(s, i, p) ==
  /\ i + Len(p) - 1 <= Len(s)
  /\ \A k \in 1..Len(p) : s[i + k - 1] = p[k]

IsPrefix(p, s) == StartsAt(s, 1, p)

Spaces(n) == SubSeq(<<" ", " ", " ", " ", " ", " ", " ", " ">>, 1, n)

\* The texts of a sequence joined end to end (by halves, to keep the
\* evaluation shallow).
Concat(ss) ==
  Bind(ss, LAMBDA v :
    LET RECURSIVE go(_, _)
        go(lo, hi) ==
          IF lo > hi THEN <<>>
          ELSE IF lo = hi THEN v[lo]
          ELSE Bind((lo + hi) \div 2, LAMBDA mid : go(lo, mid) \o go(mid + 1, hi))
    IN go(1, Len(v)))

(***************************************************************************)
(* serde_json: the text of one line parsed to a tree, members and elements *)
(* in input order.  Input alphabet: no fractions or exponents in numbers,  *)
(* integers of at most 18 digits, and of the escapes \uXXXX only those of  *)
(* a character of the alphabet (Codes).                                    *)
(***************************************************************************)
NullV == [t |-> "null", s |-> <<>>, items |-> <<>>]
BoolV(txt) == [t |-> "bool", s |-> txt, items |-> <<>>]
NumV(txt) == [t |-> "num", s |-> txt, items |-> <<>>]
StrV(txt) == [t |-> "str", s |-> txt, items |-> <<>>]
ArrV(vs) == [t |-> "arr", s |-> <<>>, items |-> vs]
\* items: a sequence of <<key, value>> pairs.
ObjV(ms) == [t |-> "obj", s |-> <<>>, items |-> ms]

Fail == [ok |-> FALSE, v |-> NullV, pos |-> 0]
Ok(v, pos) == [ok |-> TRUE, v |-> v, pos |-> pos]

IsWs(c) == c \in {" ", TAB, NEWLINE, CR}

\* The first index >= i of s that holds no whitespace (Len(s) + 1 at the end).
SkipWs(s, i) ==
  CHOOSE j \in i..(Len(s) + 1) :
    /\ \A k \in i..(j - 1) : IsWs(s[k])
    /\ (j <= Len(s) => ~IsWs(s[j]))

\* The character a one-letter escape stands for, "" when it is no such escape.
Unescape(e) ==
  IF e = QUOTE THEN QUOTE
  ELSE IF e = BACKSLASH THEN BACKSLASH
  ELSE IF e = "/" THEN "/"
  ELSE IF e = "b" THEN BS
  ELSE IF e = "f" THEN FF
  ELSE IF e = "n" THEN NEWLINE
  ELSE IF e = "t" THEN TAB
  ELSE IF e = "r" THEN CR
  ELSE ""

\* Whether s[i], at or after index j, follows an odd run of backslashes, that
\* is, whether it is the letter of an escape.
IsEscaped(s, j, i) ==
  \E r \in 1..(i - j) :
    /\ r % 2 = 1
    /\ \A q \in 1..r : s[i - q] = BACKSLASH
    /\ (i - r = j \/ s[i - r - 1] # BACKSLASH)

\* The code of the four hexadecimal digits s[i + 1 .. i + 4] after the u of an
\* escape, -1 when they are not four such digits before index e.
HexCode(s, i, e) ==
  IF i + 4 < e /\ \A d \in 1..4 : s[i + d] \in HexSet
  THEN HexVal(s[i + 1]) * 4096 + HexVal(s[i + 2]) * 256 + HexVal(s[i + 3]) * 16
         + HexVal(s[i + 4])
  ELSE -1

\* The body of a string from index j (after the opening quote) up to the first
\* quote that is no escape: an escape is replaced by its character; an unknown
\* escape or a raw control character is an error.
ScanString(s, j, acc) ==
  LET closes(e) == s[e] = QUOTE /\ ~IsEscaped(s, j, e) IN
  IF ~\E e \in j..Len(s) : closes(e) THEN Fail
  ELSE
    Bind(CHOOSE e \in j..Len(s) : closes(e) /\ \A k \in j..(e - 1) : ~closes(k), LAMBDA e :
      Bind([i \in j..(e - 1) |-> IsEscaped(s, j, i)], LAMBDA esc :
        LET isU(i) == i >= j /\ esc[i] /\ s[i] = "u"
            inHex(i) == \E d \in 1..4 : isU(i - d)
        IN
        IF \E i \in j..(e - 1) :
             \/ isU(i) /\ HexCode(s, i, e) \notin Codes
             \/ esc[i] /\ ~isU(i) /\ Unescape(s[i]) = ""
             \/ ~esc[i] /\ Code(s[i]) < 32
        THEN Fail
        ELSE Ok(StrV(acc \o Concat([i \in 1..(e - j) |->
                  LET p == j + i - 1 IN
                  IF isU(p) THEN <<CharOf(HexCode(s, p, e))>>
                  ELSE IF inHex(p) THEN <<>>
                  ELSE IF esc[p] THEN <<Unescape(s[p])>>
                  ELSE IF s[p] = BACKSLASH THEN <<>>
                  ELSE <<s[p]>>])), e + 1)))

\* The first index >= j of s that holds no digit.
ScanDigits(s, j) ==
  CHOOSE e \in j..(Len(s) + 1) :
    /\ \A k \in j..(e - 1) : s[k] \in DigitSet
    /\ (e <= Len(s) => s[e] \notin DigitSet)

\* A number at index i: -? (0 | [1-9][0-9]*).
ParseNumber(s, i) ==
  LET d == IF s[i] = "-" THEN i + 1 ELSE i IN
  IF d > Len(s) \/ s[d] \notin DigitSet THEN Fail
  ELSE IF s[d] = "0" THEN
    IF d + 1 <= Len(s) /\ s[d + 1] \in DigitSet THEN Fail
    ELSE Ok(NumV(Slice(s, i, d)), d + 1)
  ELSE Bind(ScanDigits(s, d), LAMBDA e : Ok(NumV(Slice(s, i, e - 1)), e))
LitTrue == <<"t", "r", "u", "e">>
LitFalse == <<"f", "a", "l", "s", "e">>
LitNull == <<"n", "u", "l", "l">>

RECURSIVE ParseValue(_, _)
RECURSIVE ParseElements(_, _, _)
RECURSIVE ParseMembers(_, _, _)

\* One value at index i (whitespace before it already skipped).
ParseValue(s, i) ==
  IF i > Len(s) THEN Fail
  ELSE IF s[i] = QUOTE THEN ScanString(s, i + 1, <<>>)
  ELSE IF s[i] = "-" \/ s[i] \in DigitSet THEN ParseNumber(s, i)
  ELSE IF StartsAt(s, i, LitTrue) THEN Ok(BoolV(LitTrue), i + 4)
  ELSE IF StartsAt(s, i, LitFalse) THEN Ok(BoolV(LitFalse), i + 5)
  ELSE IF StartsAt(s, i, LitNull) THEN Ok(NullV, i + 4)
  ELSE IF s[i] = "[" THEN
    Bind(SkipWs(s, i + 1), LAMBDA j :
      IF j <= Len(s) /\ s[j] = "]" THEN Ok(ArrV(<<>>), j + 1)
      ELSE ParseElements(s, j, <<>>))
  ELSE IF s[i] = "{" THEN
    Bind(SkipWs(s, i + 1), LAMBDA j :
      IF j <= Len(s) /\ s[j] = "}" THEN Ok(ObjV(<<>>), j + 1)
      ELSE ParseMembers(s, j, <<>>))
  ELSE Fail

\* The elements of an array from index i, up to and including "]".
ParseElements(s, i, acc) ==
  Bind(ParseValue(s, i), LAMBDA r :
    IF ~r.ok THEN Fail
    ELSE Bind(SkipWs(s, r.pos), LAMBDA j :
      IF j > Len(s) THEN Fail
      ELSE IF s[j] = "]" THEN Ok(ArrV(Append(acc, r.v)), j + 1)
      ELSE IF s[j] = "," THEN
        Bind(<<SkipWs(s, j + 1), Append(acc, r.v)>>,
             LAMBDA n : ParseElements(s, n[1], n[2]))
      ELSE Fail))

\* The members of an object from index i, up to and including "}".
ParseMembers(s, i, acc) ==
  IF i > Len(s) \/ s[i] # QUOTE THEN Fail
  ELSE
    Bind(ScanString(s, i + 1, <<>>), LAMBDA k :
      IF ~k.ok THEN Fail
      ELSE Bind(SkipWs(s, k.pos), LAMBDA c :
        IF c > Len(s) \/ s[c] # ":" THEN Fail
        ELSE Bind(ParseValue(s, SkipWs(s, c + 1)), LAMBDA r :
          IF ~r.ok THEN Fail
          ELSE Bind(SkipWs(s, r.pos), LAMBDA j :
            IF j > Len(s) THEN Fail
            ELSE IF s[j] = "}" THEN Ok(ObjV(Append(acc, <<k.v.s, r.v>>)), j + 1)
            ELSE IF s[j] = "," THEN
              Bind(<<SkipWs(s, j + 1), Append(acc, <<k.v.s, r.v>>)>>,
                   LAMBDA n : ParseMembers(s, n[1], n[2]))
            ELSE Fail))))

\* serde_json::from_str for a struct: an object or an array, then only
\* whitespace to the end of the text.
ParseDocument(s) ==
  Bind(SkipWs(s, 1), LAMBDA i :
    IF i > Len(s) \/ s[i] \notin {"{", "["} THEN Fail
    ELSE Bind(ParseValue(s, i), LAMBDA r :
      IF r.ok /\ SkipWs(s, r.pos) = Len(s) + 1 THEN r ELSE Fail))

(***************************************************************************)
(* serde_json::Value (default features: an object is a BTreeMap, its keys  *)
(* unique and in byte order) and serde_json::to_string.                    *)
(***************************************************************************)
\* BTreeMap::insert into the sorted pairs ms: the value of an equal key is
\* replaced, a new key goes before the first greater key.
MapInsert(ms, k, v) ==
  IF \E i \in 1..Len(ms) : ms[i][1] = k THEN
    [i \in 1..Len(ms) |-> IF ms[i][1] = k THEN <<k, v>> ELSE ms[i]]
  ELSE
    LET n == Cardinality({i \in 1..Len(ms) : StrLess(ms[i][1], k)}) IN
    SubSeq(ms, 1, n) \o << <<k, v>> >> \o SubSeq(ms, n + 1, Len(ms))

RECURSIVE ToValue(_)

\* The Value a parsed tree deserializes to.
ToValue(raw) ==
  IF raw.t = "arr" THEN
    ArrV([i \in 1..Len(raw.items) |-> ToValue(raw.items[i])])
  ELSE IF raw.t = "obj" THEN
    LET RECURSIVE go(_, _)
        go(i, acc) ==
          IF i > Len(raw.items) THEN acc
          ELSE Bind(<<i + 1, MapInsert(acc, raw.items[i][1], ToValue(raw.items[i][2]))>>,
                    LAMBDA n : go(n[1], n[2]))
    IN ObjV(go(1, <<>>))
  ELSE raw

\* The escaped form of one character inside a JSON string.
EscapeChar(c) ==
  IF c = QUOTE THEN <<BACKSLASH, QUOTE>>
  ELSE IF c = BACKSLASH THEN <<BACKSLASH, BACKSLASH>>
  ELSE IF c = BS THEN <<BACKSLASH, "b">>
  ELSE IF c = FF THEN <<BACKSLASH, "f">>
  ELSE IF c = NEWLINE THEN <<BACKSLASH, "n">>
  ELSE IF c = TAB THEN <<BACKSLASH, "t">>
  ELSE IF c = CR THEN <<BACKSLASH, "r">>
  ELSE IF Code(c) < 32 THEN
    <<BACKSLASH, "u", "0", "0", HexLower[(Code(c) \div 16) + 1], HexLower[(Code(c) % 16) + 1]>>
  ELSE <<c>>

JsonString(txt) ==
  <<QUOTE>> \o Concat([i \in 1..Len(txt) |-> EscapeChar(txt[i])]) \o <<QUOTE>>

\* A number as serde_json writes it: integers as read, -0 (an f64) as -0.0.
JsonNumber(txt) == IF txt = <<"-", "0">> THEN txt \o <<".", "0">> ELSE txt

\* The texts of a sequence joined with commas.
JoinComma(ss) ==
  Concat([i \in 1..Len(ss) |-> IF i = 1 THEN ss[i] ELSE <<",">> \o ss[i]])

RECURSIVE ToJson(_)

\* serde_json::to_string: the compact encoding.
ToJson(v) ==
  IF v.t = "null" THEN LitNull
  ELSE IF v.t = "bool" THEN v.s
  ELSE IF v.t = "num" THEN JsonNumber(v.s)
  ELSE IF v.t = "str" THEN JsonString(v.s)
  ELSE IF v.t = "arr" THEN
    <<"[">> \o JoinComma([i \in 1..Len(v.items) |-> ToJson(v.items[i])]) \o <<"]">>
  ELSE
    <<"{">>
      \o JoinComma([i \in 1..Len(v.items) |->
           JsonString(v.items[i][1]) \o <<":">> \o ToJson(v.items[i][2])])
      \o <<"}">>

(***************************************************************************)
(* LogLine and its derived Deserialize                                     *)
(***************************************************************************)
F_level == <<"l", "e", "v", "e", "l">>
F_message == <<"m", "e", "s", "s", "a", "g", "e">>
F_timestamp == <<"t", "i", "m", "e", "s", "t", "a", "m", "p">>
F_file == <<"f", "i", "l", "e">>
F_line == <<"l", "i", "n", "e">>
F_metadata == <<"m", "e", "t", "a", "d", "a", "t", "a">>

\* The fields in declaration order.
FieldNames == <<F_level, F_message, F_timestamp, F_file, F_line, F_metadata>>
FieldSet == {F_level, F_message, F_timestamp, F_file, F_line, F_metadata}
\* The fields that are no Option.
RequiredFields == {F_level, F_message, F_timestamp}

None(dflt) == [some |-> FALSE, v |-> dflt]
Some(x) == [some |-> TRUE, v |-> x]

\* i32::MAX and the magnitude of i32::MIN, as digits.
I32MaxText == <<"2", "1", "4", "7", "4", "8", "3", "6", "4", "7">>
I32MinMagnitude == <<"2", "1", "4", "7", "4", "8", "3", "6", "4", "8">>

\* Whether the number text (as ParseNumber leaves it) is an integer an i32
\* holds; -0 is an f64.
FitsI32(txt) ==
  LET neg == txt[1] = "-"
      mag == IF neg THEN Tail(txt) ELSE txt
      lim == IF neg THEN I32MinMagnitude ELSE I32MaxText
  IN
  /\ txt # <<"-", "0">>
  /\ \/ Len(mag) < Len(lim)
     \/ Len(mag) = Len(lim) /\ ~StrLess(lim, mag)

\* The i32 a fitting number text stands for.
ToI32(txt) ==
  LET sign == IF txt[1] = "-" THEN -1 ELSE 1
      ds == IF txt[1] = "-" THEN Tail(txt) ELSE txt
      RECURSIVE go(_, _)
      go(i, acc) ==
        IF i > Len(ds) THEN acc
        ELSE Bind(<<i + 1, acc * 10 + sign * DigitVal(ds[i])>>, LAMBDA n : go(n[1], n[2]))
  IN go(1, 0)

\* One field's value decoded by the field's type: [ok, v].
DecodeField(name, raw) ==
  IF name \in RequiredFields THEN
    [ok |-> raw.t = "str", v |-> raw.s]
  ELSE IF name = F_file THEN
    IF raw.t = "null" THEN [ok |-> TRUE, v |-> None(<<>>)]
    ELSE [ok |-> raw.t = "str", v |-> Some(raw.s)]
  ELSE IF name = F_line THEN
    IF raw.t = "null" THEN [ok |-> TRUE, v |-> None(0)]
    ELSE IF raw.t = "num" /\ FitsI32(raw.s) THEN [ok |-> TRUE, v |-> Some(ToI32(raw.s))]
    ELSE [ok |-> FALSE, v |-> None(0)]
  ELSE
    IF raw.t = "null" THEN [ok |-> TRUE, v |-> None(NullV)]
    ELSE [ok |-> TRUE, v |-> Some(ToValue(raw))]

\* A LogLine with nothing set; level, message and timestamp are set by decoding.
EmptyLogLine ==
  [level |-> <<>>, message |-> <<>>, timestamp |-> <<>>,
   file |-> None(<<>>), line |-> None(0), metadata |-> None(NullV)]

SetField(rec, name, v) ==
  IF name = F_level THEN [rec EXCEPT !.level = v]
  ELSE IF name = F_message THEN [rec EXCEPT !.message = v]
  ELSE IF name = F_timestamp THEN [rec EXCEPT !.timestamp = v]
  ELSE IF name = F_file THEN [rec EXCEPT !.file = v]
  ELSE IF name = F_line THEN [rec EXCEPT !.line = v]
  ELSE [rec EXCEPT !.metadata = v]

DecodeFail == [ok |-> FALSE, v |-> EmptyLogLine]

\* visit_map: the members in input order; a field given twice or of the wrong
\* type is an error, an unknown key is skipped, a required field must be seen.
VisitMap(ms) ==
  LET RECURSIVE go(_, _, _)
      go(i, seen, rec) ==
        IF i > Len(ms) THEN
          IF RequiredFields \subseteq seen THEN [ok |-> TRUE, v |-> rec] ELSE DecodeFail
        ELSE IF ms[i][1] \notin FieldSet THEN Bind(i + 1, LAMBDA n : go(n, seen, rec))
        ELSE IF ms[i][1] \in seen THEN DecodeFail
        ELSE Bind(DecodeField(ms[i][1], ms[i][2]), LAMBDA d :
          IF ~d.ok THEN DecodeFail
          ELSE Bind(<<i + 1, seen \cup {ms[i][1]}, SetField(rec, ms[i][1], d.v)>>,
                    LAMBDA n : go(n[1], n[2], n[3])))
  IN go(1, {}, EmptyLogLine)

\* visit_seq: the six fields by position, no fewer and no more.
VisitSeq(vs) ==
  LET RECURSIVE go(_, _)
      go(i, rec) ==
        IF i > Len(FieldNames) THEN [ok |-> TRUE, v |-> rec]
        ELSE Bind(DecodeField(FieldNames[i], vs[i]), LAMBDA d :
          IF ~d.ok THEN DecodeFail
          ELSE Bind(<<i + 1, SetField(rec, FieldNames[i], d.v)>>,
                    LAMBDA n : go(n[1], n[2])))
  IN IF Len(vs) = Len(FieldNames) THEN go(1, EmptyLogLine) ELSE DecodeFail

\* serde_json's recursion limit: the Deserializer starts with a remaining
\* depth of 128, takes one off at every array or object it enters (the LogLine
\* itself and what a Value holds) and fails when none is left.
RecursionLimit == 128

\* The indices of s that stand outside its strings.
Outside(s) ==
  Bind({i \in 1..Len(s) : s[i] = QUOTE /\ ~IsEscaped(s, 1, i)}, LAMBDA quotes :
    {i \in 1..Len(s) : i \notin quotes /\ Cardinality({q \in quotes : q < i}) % 2 = 0})

\* The arrays and objects that are open before index k of s; out is Outside(s).
NestingBefore(s, out, k) ==
  Cardinality({b \in out : b < k /\ s[b] \in {"[", "{"}})
    - Cardinality({b \in out : b < k /\ s[b] \in {"]", "}"}})

\* Whether index p of s lies in the value of a member of the LogLine object
\* whose key is no field: such a value is skipped by ignore_value, which keeps
\* its own stack and takes nothing off the remaining depth.  The member starts
\* after the last comma of the object before p, or after its opening brace.
InIgnoredValue(s, out, p) ==
  /\ s[SkipWs(s, 1)] = "{"
  /\ Bind({m \in out : /\ m < p
                       /\ \/ m = SkipWs(s, 1)
                          \/ s[m] = "," /\ NestingBefore(s, out, m) = 1}, LAMBDA starts :
       Bind(SkipWs(s, (CHOOSE m \in starts : \A x \in starts : x <= m) + 1), LAMBDA q :
         /\ q < p /\ s[q] = QUOTE
         /\ Bind(ScanString(s, q + 1, <<>>), LAMBDA key :
              key.ok /\ key.v.s \notin FieldSet)))

\* Whether decoding s runs into the recursion limit: an array or object is
\* entered at a depth of RecursionLimit.  (A text with fewer opening brackets
\* than that cannot nest so deep.)
RecursionLimitExceeded(s) ==
  /\ Cardinality({i \in 1..Len(s) : s[i] \in {"[", "{"}}) >= RecursionLimit
  /\ Bind(Outside(s), LAMBDA out :
       \E p \in out :
         /\ s[p] \in {"[", "{"}
         /\ NestingBefore(s, out, p) + 1 >= RecursionLimit
         /\ ~InIgnoredValue(s, out, p))

\* serde_json::from_str::<LogLine>(line): [ok, v].
from_str(line) ==
  IF RecursionLimitExceeded(line) THEN DecodeFail
  ELSE
    Bind(ParseDocument(line), LAMBDA doc :
      IF ~doc.ok THEN DecodeFail
      ELSE IF doc.v.t = "obj" THEN VisitMap(doc.v.items)
      ELSE VisitSeq(doc.v.items))

\* The decimal digits of n >= 0.
NatText(n) ==
  LET RECURSIVE go(_, _)
      go(m, acc) ==
        IF m < 10 THEN <<Digits[m + 1]>> \o acc
        ELSE Bind(<<m \div 10, <<Digits[(m % 10) + 1]>> \o acc>>, LAMBDA x : go(x[1], x[2]))
  IN go(n, <<>>)

\* i32::to_string; the magnitude of i32::MIN is taken in two parts, as the
\* whole does not fit.
to_string_i32(n) ==
  IF n >= 0 THEN NatText(n)
  ELSE LET m == -(n + 1)
           last == ((m % 10) + 1) % 10
           q == (m \div 10) + (IF last = 0 THEN 1 ELSE 0)
       IN <<"-">> \o (IF q = 0 THEN <<>> ELSE NatText(q)) \o <<Digits[last + 1]>>

(***************************************************************************)
(* chrono: DateTime::parse_from_rfc3339, the conversion to the Local zone  *)
(* and to_rfc3339_opts(SecondsFormat::Millis, true).  The Local zone is a  *)
(* fixed offset of lo minutes east of UTC.                                 *)
(***************************************************************************)
IsDigitAt(s, i) == i <= Len(s) /\ s[i] \in DigitSet

\* The two-digit number at s[i], s[i + 1].
Num2(s, i) == DigitVal(s[i]) * 10 + DigitVal(s[i + 1])

IsLeapYear(y) == (y % 4 = 0 /\ y % 100 # 0) \/ y % 400 = 0

DaysInMonth(y, m) ==
  IF m = 2 THEN (IF IsLeapYear(y) THEN 29 ELSE 28)
  ELSE IF m \in {4, 6, 9, 11} THEN 30
  ELSE 31

NoTime == [ok |-> FALSE, y |-> 0, mo |-> 0, d |-> 0, h |-> 0, mi |-> 0, sec |-> 0,
           ms |-> 0, off |-> 0]

\* The first three digits of a fraction, as milliseconds.
Millis(frac) ==
  LET g(i) == IF i <= Len(frac) THEN DigitVal(frac[i]) ELSE 0
  IN g(1) * 100 + g(2) * 10 + g(3)

\* The offset at s[i..]: Z, z, or a sign, hh, ":" and mm, to the end of s.
ParseOffset(s, i) ==
  IF i > Len(s) THEN [ok |-> FALSE, off |-> 0]
  ELSE IF s[i] \in {"Z", "z"} THEN [ok |-> i = Len(s), off |-> 0]
  ELSE IF /\ s[i] \in {"+", "-"}
          /\ Len(s) = i + 5
          /\ IsDigitAt(s, i + 1) /\ IsDigitAt(s, i + 2)
          /\ s[i + 3] = ":"
          /\ IsDigitAt(s, i + 4) /\ IsDigitAt(s, i + 5)
          /\ Num2(s, i + 1) <= 23 /\ Num2(s, i + 4) <= 59
  THEN [ok |-> TRUE,
        off |-> (IF s[i] = "-" THEN -1 ELSE 1) * (Num2(s, i + 1) * 60 + Num2(s, i + 4))]
  ELSE [ok |-> FALSE, off |-> 0]

\* DateTime::parse_from_rfc3339: yyyy-mm-dd, T (or t or a space), hh:mm:ss,
\* an optional fraction, an offset; every field in its range.
parse_from_rfc3339(s) ==
  IF ~(/\ Len(s) >= 20
       /\ \A i \in {1, 2, 3, 4, 6, 7, 9, 10, 12, 13, 15, 16, 18, 19} : s[i] \in DigitSet
       /\ s[5] = "-" /\ s[8] = "-"
       /\ s[11] \in {"T", "t", " "}
       /\ s[14] = ":" /\ s[17] = ":")
  THEN NoTime
  ELSE
    Bind(IF s[20] = "." THEN ScanDigits(s, 21) ELSE 20, LAMBDA fEnd :
      Bind(ParseOffset(s, fEnd), LAMBDA o :
        LET y == Num2(s, 1) * 100 + Num2(s, 3)
            mo == Num2(s, 6)
            d == Num2(s, 9)
            h == Num2(s, 12)
            mi == Num2(s, 15)
            sec == Num2(s, 18)
            frac == Slice(s, 21, fEnd - 1)
        IN
        IF /\ (s[20] = "." => fEnd > 21)
           /\ o.ok
           /\ mo \in 1..12 /\ d >= 1 /\ d <= DaysInMonth(y, mo)
           /\ h <= 23 /\ mi <= 59 /\ sec <= 60
        THEN [ok |-> TRUE, y |-> y, mo |-> mo, d |-> d, h |-> h, mi |-> mi,
              sec |-> sec, ms |-> Millis(frac), off |-> o.off]
        ELSE NoTime))

NextDay(t) ==
  IF t.d < DaysInMonth(t.y, t.mo) THEN [t EXCEPT !.d = t.d + 1]
  ELSE IF t.mo < 12 THEN [t EXCEPT !.d = 1, !.mo = t.mo + 1]
  ELSE [t EXCEPT !.d = 1, !.mo = 1, !.y = t.y + 1]

PrevDay(t) ==
  IF t.d > 1 THEN [t EXCEPT !.d = t.d - 1]
  ELSE IF t.mo > 1 THEN [t EXCEPT !.d = DaysInMonth(t.y, t.mo - 1), !.mo = t.mo - 1]
  ELSE [t EXCEPT !.d = 31, !.mo = 12, !.y = t.y - 1]

\* The date of t moved by the whole days in m minutes past its midnight.
RECURSIVE ShiftDays(_, _)
ShiftDays(t, m) ==
  IF m < 0 THEN Bind(<<PrevDay(t), m + 1440>>, LAMBDA n : ShiftDays(n[1], n[2]))
  ELSE IF m >= 1440 THEN Bind(<<NextDay(t), m - 1440>>, LAMBDA n : ShiftDays(n[1], n[2]))
  ELSE [t EXCEPT !.h = m \div 60, !.mi = m % 60]

\* The same instant on the clock of the zone lo minutes east of UTC.
with_timezone(t, lo) ==
  [ShiftDays(t, t.h * 60 + t.mi - t.off + lo) EXCEPT !.off = lo]

\* n in at least w digits, zero padded.
Pad(n, w) ==
  Bind(NatText(n), LAMBDA txt :
    IF Len(txt) >= w THEN txt ELSE SubSeq(<<"0", "0", "0", "0">>, 1, w - Len(txt)) \o txt)

\* The year as write_rfc3339 puts it: four digits, or signed outside 0..9999.
YearText(y) ==
  IF y >= 0 /\ y <= 9999 THEN Pad(y, 4)
  ELSE IF y < 0 THEN <<"-">> \o Pad(-y, 4)
  ELSE <<"+">> \o Pad(y, 4)

\* OffsetText with use_z false: UTC is written +00:00.
OffsetText_numeric(off) ==
  LET a == IF off < 0 THEN -off ELSE off IN
  <<(IF off < 0 THEN "-" ELSE "+")>> \o Pad(a \div 60, 2) \o <<":">> \o Pad(a % 60, 2)

\* The offset with use_z: Z for UTC, else the sign, hh, ":" and mm.
OffsetText(off) ==
  IF off = 0 THEN <<"Z">>
  ELSE LET a == IF off < 0 THEN -off ELSE off IN
    <<(IF off < 0 THEN "-" ELSE "+")>> \o Pad(a \div 60, 2) \o <<":">> \o Pad(a % 60, 2)

\* to_rfc3339_opts(SecondsFormat::Millis, true).
to_rfc3339_opts(t) ==
  YearText(t.y) \o <<"-">> \o Pad(t.mo, 2) \o <<"-">> \o Pad(t.d, 2) \o <<"T">>
    \o Pad(t.h, 2) \o <<":">> \o Pad(t.mi, 2) \o <<":">> \o Pad(t.sec, 2)
    \o <<".">> \o Pad(t.ms, 3) \o OffsetText(t.off)

\* TimeFallback that shows nothing for a timestamp that does not parse.
TimeFallback_empty(timestamp) == <<>>

\* The else branch of to_local_time: the text shown when the timestamp does
\* not parse.
TimeFallback(timestamp) == timestamp

to_local_time(timestamp, lo) ==
  Bind(parse_from_rfc3339(timestamp), LAMBDA time :
    IF time.ok THEN Bind(with_timezone(time, lo), LAMBDA local : to_rfc3339_opts(local))
    ELSE TimeFallback(timestamp))

(***************************************************************************)
(* colored: ColoredString's Display.  on is the crate's global              *)
(* SHOULD_COLORIZE (the terminal and the CLICOLOR, NO_COLOR variables).    *)
(***************************************************************************)
Reset == <<ESC, "[", "0", "m">>

\* The SGR foreground code of a colour.
ColorCode(color) ==
  IF color = "red" THEN <<"3", "1">>
  ELSE IF color = "green" THEN <<"3", "2">>
  ELSE IF color = "yellow" THEN <<"3", "3">>
  ELSE IF color = "blue" THEN <<"3", "4">>
  ELSE IF color = "magenta" THEN <<"3", "5">>
  ELSE <<"3", "6">>

Style(color) == <<ESC, "[">> \o ColorCode(color) \o <<"m">>

\* escape_inner_reset_sequences: the style again after every reset inside txt.
EscapeInnerResets(txt, style) ==
  Concat([i \in 1..Len(txt) |->
    IF i >= Len(Reset) /\ StartsAt(txt, i - Len(Reset) + 1, Reset)
    THEN <<txt[i]>> \o style ELSE <<txt[i]>>])

\* txt.color(color) as displayed.
Paint(txt, color, on) ==
  IF on THEN
    Bind(<<txt, Style(color)>>, LAMBDA a :
      a[2] \o EscapeInnerResets(a[1], a[2]) \o Reset)
  ELSE txt

(***************************************************************************)
(* main.rs                                                                 *)
(***************************************************************************)
\* The width of the level field, {l:^5}.
LevelWidth == 5

metadata_to_string(metadata) ==
  IF metadata.some THEN ToJson(metadata.v) ELSE <<>>

\* Center with the odd space on the left.
Center_left(txt, w) ==
  LET padding == w - Len(txt) IN
  IF padding <= 0 THEN txt
  ELSE Spaces((padding + 1) \div 2) \o txt \o Spaces(padding \div 2)

\* {:^w}: centred, the odd space on the right; never truncated.
Center(txt, w) ==
  LET padding == w - Len(txt) IN
  IF padding <= 0 THEN txt
  ELSE Spaces(padding \div 2) \o txt \o Spaces((padding + 1) \div 2)

\* HasSourceInfo with && for ||: one of the pair is enough.
HasSourceInfo_either(v) == ~(~v.file.some /\ ~v.line.some)

\* The else branch of fmt is taken: neither file nor line is None.
HasSourceInfo(v) == ~(~v.file.some \/ ~v.line.some)

\* LogLine's Display.
fmt(v, lo, on) ==
  LET meta == metadata_to_string(v.metadata)
      time == to_local_time(v.timestamp, lo)
  IN
  IF ~HasSourceInfo(v) THEN
    Paint(time, "magenta", on) \o <<"|">> \o Center(v.level, LevelWidth)
      \o <<":", " ">> \o v.message \o <<" ">> \o meta
  ELSE
    Paint(time, "magenta", on) \o <<"|">> \o Center(v.level, LevelWidth) \o <<"|">>
      \o Paint(v.file.v, "blue", on) \o <<":">>
      \o Paint(to_string_i32(v.line.v), "blue", on)
      \o <<":", " ">> \o v.message \o <<" ">> \o meta

\* get_color that also takes the upper-case INFO for info.
get_color_any_case(level) ==
  IF level \in {<<"i", "n", "f", "o">>, <<"I", "N", "F", "O">>} THEN "green"
  ELSE IF level = <<"w", "a", "r", "n">> THEN "yellow"
  ELSE IF level = <<"e", "r", "r", "o", "r">> THEN "red"
  ELSE IF level = <<"d", "e", "b", "u", "g">> THEN "cyan"
  ELSE "none"

get_color(level) ==
  IF level = <<"i", "n", "f", "o">> THEN "green"
  ELSE IF level = <<"w", "a", "r", "n">> THEN "yellow"
  ELSE IF level = <<"e", "r", "r", "o", "r">> THEN "red"
  ELSE IF level = <<"d", "e", "b", "u", "g">> THEN "cyan"
  ELSE "none"

\* The pieces time.magenta() and the like hand to the formatter one after the
\* other: the style, the text and the reset, or the text alone.
PaintPieces(txt, color, on) ==
  IF on THEN
    Bind(<<txt, Style(color)>>, LAMBDA a :
      <<a[2], EscapeInnerResets(a[1], a[2]), Reset>>)
  ELSE <<txt>>

\* The pieces of {:^w}: each padding space is written by itself.
CenterPieces(txt, w) ==
  LET padding == w - Len(txt) IN
  IF padding <= 0 THEN <<txt>>
  ELSE [i \in 1..(padding \div 2) |-> <<" ">>] \o <<txt>>
         \o [i \in 1..((padding + 1) \div 2) |-> <<" ">>]

\* The pieces LogLine's Display hands to the formatter, in order.
fmt_pieces(v, lo, on) ==
  LET meta == metadata_to_string(v.metadata)
      time == to_local_time(v.timestamp, lo)
  IN
  IF ~HasSourceInfo(v) THEN
    PaintPieces(time, "magenta", on) \o <<<<"|">>>> \o CenterPieces(v.level, LevelWidth)
      \o <<<<":", " ">>, v.message, <<" ">>, meta>>
  ELSE
    PaintPieces(time, "magenta", on) \o <<<<"|">>>> \o CenterPieces(v.level, LevelWidth)
      \o <<<<"|">>>> \o PaintPieces(v.file.v, "blue", on) \o <<<<":">>>>
      \o PaintPieces(to_string_i32(v.line.v), "blue", on)
      \o <<<<":", " ">>, v.message, <<" ">>, meta>>

\* The buffer of standard output's LineWriter, in bytes.
BufCapacity == 1024

\* BufWriter::flush_buf: what is buffered goes out in one write.
FlushBuf(st) ==
  IF st.buf = <<>> THEN st
  ELSE [buf |-> <<>>, writes |-> Append(st.writes, st.buf)]

\* BufWriter::write_all: b is buffered when it fits; the buffer is flushed
\* first when b is longer than the room left, and b of the buffer's size or
\* more is written straight through.
BufWrite(st, b) ==
  IF Len(b) < BufCapacity - Len(st.buf) THEN [st EXCEPT !.buf = @ \o b]
  ELSE
    Bind(IF Len(b) > BufCapacity - Len(st.buf) THEN FlushBuf(st) ELSE st, LAMBDA s1 :
      IF Len(b) >= BufCapacity THEN [s1 EXCEPT !.writes = Append(@, b)]
      ELSE [s1 EXCEPT !.buf = @ \o b])

\* The index of the last line feed of b, 0 when it has none.
LastNewline(b) ==
  CHOOSE i \in 0..Len(b) :
    /\ i = 0 \/ b[i] = NEWLINE
    /\ \A j \in (i + 1)..Len(b) : b[j] # NEWLINE

\* LineWriter's write_all of one piece: a piece without a line feed is
\* buffered; of a piece with one, the part up to its last line feed goes out
\* together with what is buffered, and the rest is buffered.  (The buffer
\* never ends with a line feed here, so flush_if_completed_line does nothing.)
LineWrite(st, b) ==
  Bind(LastNewline(b), LAMBDA n :
    IF n = 0 THEN BufWrite(st, b)
    ELSE
      Bind(IF st.buf = <<>> THEN [st EXCEPT !.writes = Append(@, SubSeq(b, 1, n))]
           ELSE FlushBuf(BufWrite(st, SubSeq(b, 1, n))), LAMBDA s1 :
        BufWrite(s1, SubSeq(b, n + 1, Len(b)))))

RECURSIVE LineWriterRun(_, _, _)
\* The pieces from the k-th on, written through the LineWriter.
LineWriterRun(st, pieces, k) ==
  IF k > Len(pieces) THEN st
  ELSE Bind(LineWrite(st, pieces[k]), LAMBDA s1 : LineWriterRun(s1, pieces, k + 1))

\* The writes standard output receives, in order, for one println! of the
\* pieces: the line feed of println! comes last and empties the buffer.
Writes(pieces) ==
  Bind(pieces \o <<<<NEWLINE>>>>, LAMBDA ps :
    LineWriterRun([buf |-> <<>>, writes |-> <<>>], ps, 1).writes)

\* What one iteration of main's loop prints for a line, and by which branch:
\* fmt is v.to_string(), out the argument of println! as displayed, writes
\* the writes println! makes of it.
Render(line, lo, on) ==
  Bind(from_str(line), LAMBDA r :
    IF r.ok THEN
      Bind(<<get_color(r.v.level), fmt(r.v, lo, on)>>, LAMBDA a :
        [line |-> line, decoded |-> TRUE, color |-> a[1], fmt |-> a[2],
         out |-> IF a[1] # "none" THEN Paint(a[2], a[1], on) ELSE a[2],
         writes |-> IF a[1] # "none" THEN Writes(PaintPieces(a[2], a[1], on))
                    ELSE Writes(fmt_pieces(r.v, lo, on))])
    ELSE [line |-> line, decoded |-> FALSE, color |-> "none", fmt |-> <<>>,
          out |-> line, writes |-> Writes(<<line>>)])

NoInputMessage == <<"N", "o", " ", "i", "n", "p", "u", "t", ".">>
\* The panic report of the runtime, whatever its text.
PanicMessage == <<"p", "a", "n", "i", "c">>

(***************************************************************************)
(* The inputs                                                              *)
(***************************************************************************)
\* {"level":"error","message":"boom","timestamp":"2024-01-01T00:00:00Z"}
L_boom ==
  <<"{", "\"", "l", "e", "v", "e", "l", "\"", ":", "\"", "e", "r", "r", "o", "r", "\"",
    ",", "\"", "m", "e", "s", "s", "a", "g", "e", "\"", ":", "\"", "b", "o", "o", "m",
    "\"", ",", "\"", "t", "i", "m", "e", "s", "t", "a", "m", "p", "\"", ":", "\"", "2",
    "0", "2", "4", "-", "0", "1", "-", "0", "1", "T", "0", "0", ":", "0", "0", ":",
    "0", "0", "Z", "\"", "}">>

\* {"level":"info","message":"hi","timestamp":"2024-03-10T23:30:00.5+02:00","file":"a.js","line":12}
L_both ==
  <<"{", "\"", "l", "e", "v", "e", "l", "\"", ":", "\"", "i", "n", "f", "o", "\"", ",",
    "\"", "m", "e", "s", "s", "a", "g", "e", "\"", ":", "\"", "h", "i", "\"", ",",
    "\"", "t", "i", "m", "e", "s", "t", "a", "m", "p", "\"", ":", "\"", "2", "0", "2",
    "4", "-", "0", "3", "-", "1", "0", "T", "2", "3", ":", "3", "0", ":", "0", "0",
    ".", "5", "+", "0", "2", ":", "0", "0", "\"", ",", "\"", "f", "i", "l", "e", "\"",
    ":", "\"", "a", ".", "j", "s", "\"", ",", "\"", "l", "i", "n", "e", "\"", ":", "1",
    "2", "}">>

\* {"level":"warn","message":"w","timestamp":"2024-01-01T00:00:00Z","file":"a.js"}
L_file_only ==
  <<"{", "\"", "l", "e", "v", "e", "l", "\"", ":", "\"", "w", "a", "r", "n", "\"", ",",
    "\"", "m", "e", "s", "s", "a", "g", "e", "\"", ":", "\"", "w", "\"", ",", "\"",
    "t", "i", "m", "e", "s", "t", "a", "m", "p", "\"", ":", "\"", "2", "0", "2", "4",
    "-", "0", "1", "-", "0", "1", "T", "0", "0", ":", "0", "0", ":", "0", "0", "Z",
    "\"", ",", "\"", "f", "i", "l", "e", "\"", ":", "\"", "a", ".", "j", "s", "\"",
    "}">>

\* {"level":"debug","message":"d","timestamp":"yesterday","line":-7}
L_line_only ==
  <<"{", "\"", "l", "e", "v", "e", "l", "\"", ":", "\"", "d", "e", "b", "u", "g", "\"",
    ",", "\"", "m", "e", "s", "s", "a", "g", "e", "\"", ":", "\"", "d", "\"", ",",
    "\"", "t", "i", "m", "e", "s", "t", "a", "m", "p", "\"", ":", "\"", "y", "e", "s",
    "t", "e", "r", "d", "a", "y", "\"", ",", "\"", "l", "i", "n", "e", "\"", ":", "-",
    "7", "}">>

\* {"level":"info","message":"m","timestamp":"t","metadata":{"b":1,"a":[2,1]}}
L_meta_unsorted ==
  <<"{", "\"", "l", "e", "v", "e", "l", "\"", ":", "\"", "i", "n", "f", "o", "\"", ",",
    "\"", "m", "e", "s", "s", "a", "g", "e", "\"", ":", "\"", "m", "\"", ",", "\"",
    "t", "i", "m", "e", "s", "t", "a", "m", "p", "\"", ":", "\"", "t", "\"", ",", "\"",
    "m", "e", "t", "a", "d", "a", "t", "a", "\"", ":", "{", "\"", "b", "\"", ":", "1",
    ",", "\"", "a", "\"", ":", "[", "2", ",", "1", "]", "}", "}">>

\* {"level":"info","message":"m","timestamp":"t","metadata":{"a":"x","b":[true,null]}}
L_meta_sorted ==
  <<"{", "\"", "l", "e", "v", "e", "l", "\"", ":", "\"", "i", "n", "f", "o", "\"", ",",
    "\"", "m", "e", "s", "s", "a", "g", "e", "\"", ":", "\"", "m", "\"", ",", "\"",
    "t", "i", "m", "e", "s", "t", "a", "m", "p", "\"", ":", "\"", "t", "\"", ",", "\"",
    "m", "e", "t", "a", "d", "a", "t", "a", "\"", ":", "{", "\"", "a", "\"", ":", "\"",
    "x", "\"", ",", "\"", "b", "\"", ":", "[", "t", "r", "u", "e", ",", "n", "u", "l",
    "l", "]", "}", "}">>

\* {"level":"INFO","message":"m","timestamp":"t"}
L_upper ==
  <<"{", "\"", "l", "e", "v", "e", "l", "\"", ":", "\"", "I", "N", "F", "O", "\"", ",",
    "\"", "m", "e", "s", "s", "a", "g", "e", "\"", ":", "\"", "m", "\"", ",", "\"",
    "t", "i", "m", "e", "s", "t", "a", "m", "p", "\"", ":", "\"", "t", "\"", "}">>

\* {"level":"","message":"m","timestamp":"t"}
L_level_empty ==
  <<"{", "\"", "l", "e", "v", "e", "l", "\"", ":", "\"", "\"", ",", "\"", "m", "e",
    "s", "s", "a", "g", "e", "\"", ":", "\"", "m", "\"", ",", "\"", "t", "i", "m", "e",
    "s", "t", "a", "m", "p", "\"", ":", "\"", "t", "\"", "}">>

\* {"level":" info","message":"m","timestamp":"t"}
L_level_spaced ==
  <<"{", "\"", "l", "e", "v", "e", "l", "\"", ":", "\"", " ", "i", "n", "f", "o", "\"",
    ",", "\"", "m", "e", "s", "s", "a", "g", "e", "\"", ":", "\"", "m", "\"", ",",
    "\"", "t", "i", "m", "e", "s", "t", "a", "m", "p", "\"", ":", "\"", "t", "\"", "}">>

\* {"level":"verbose","message":"m","timestamp":"t","file":"b.rs","line":2147483647}
L_level_long ==
  <<"{", "\"", "l", "e", "v", "e", "l", "\"", ":", "\"", "v", "e", "r", "b", "o", "s",
    "e", "\"", ",", "\"", "m", "e", "s", "s", "a", "g", "e", "\"", ":", "\"", "m",
    "\"", ",", "\"", "t", "i", "m", "e", "s", "t", "a", "m", "p", "\"", ":", "\"", "t",
    "\"", ",", "\"", "f", "i", "l", "e", "\"", ":", "\"", "b", ".", "r", "s", "\"",
    ",", "\"", "l", "i", "n", "e", "\"", ":", "2", "1", "4", "7", "4", "8", "3", "6",
    "4", "7", "}">>

\* {"level":"ok","message":"m","timestamp":"2024-01-01T00:00:00"}
L_level_two ==
  <<"{", "\"", "l", "e", "v", "e", "l", "\"", ":", "\"", "o", "k", "\"", ",", "\"",
    "m", "e", "s", "s", "a", "g", "e", "\"", ":", "\"", "m", "\"", ",", "\"", "t", "i",
    "m", "e", "s", "t", "a", "m", "p", "\"", ":", "\"", "2", "0", "2", "4", "-", "0",
    "1", "-", "0", "1", "T", "0", "0", ":", "0", "0", ":", "0", "0", "\"", "}">>

\* {"level":"x","message":"m","timestamp":"2023-02-29T00:00:00Z"}
L_level_one ==
  <<"{", "\"", "l", "e", "v", "e", "l", "\"", ":", "\"", "x", "\"", ",", "\"", "m",
    "e", "s", "s", "a", "g", "e", "\"", ":", "\"", "m", "\"", ",", "\"", "t", "i", "m",
    "e", "s", "t", "a", "m", "p", "\"", ":", "\"", "2", "0", "2", "3", "-", "0", "2",
    "-", "2", "9", "T", "0", "0", ":", "0", "0", ":", "0", "0", "Z", "\"", "}">>

\* {"level":"abc","message":"m","timestamp":"t"}
L_level_three ==
  <<"{", "\"", "l", "e", "v", "e", "l", "\"", ":", "\"", "a", "b", "c", "\"", ",",
    "\"", "m", "e", "s", "s", "a", "g", "e", "\"", ":", "\"", "m", "\"", ",", "\"",
    "t", "i", "m", "e", "s", "t", "a", "m", "p", "\"", ":", "\"", "t", "\"", "}">>

\* not json at all
L_raw ==
  <<"n", "o", "t", " ", "j", "s", "o", "n", " ", "a", "t", " ", "a", "l", "l">>

\* {"level":"info","message":"m"}
L_no_timestamp ==
  <<"{", "\"", "l", "e", "v", "e", "l", "\"", ":", "\"", "i", "n", "f", "o", "\"", ",",
    "\"", "m", "e", "s", "s", "a", "g", "e", "\"", ":", "\"", "m", "\"", "}">>

\* {"level":1,"message":"m","timestamp":"t"}
L_level_number ==
  <<"{", "\"", "l", "e", "v", "e", "l", "\"", ":", "1", ",", "\"", "m", "e", "s", "s",
    "a", "g", "e", "\"", ":", "\"", "m", "\"", ",", "\"", "t", "i", "m", "e", "s", "t",
    "a", "m", "p", "\"", ":", "\"", "t", "\"", "}">>

\* {"level":"info","message":"m","timestamp":"t","line":"12"}
L_line_string ==
  <<"{", "\"", "l", "e", "v", "e", "l", "\"", ":", "\"", "i", "n", "f", "o", "\"", ",",
    "\"", "m", "e", "s", "s", "a", "g", "e", "\"", ":", "\"", "m", "\"", ",", "\"",
    "t", "i", "m", "e", "s", "t", "a", "m", "p", "\"", ":", "\"", "t", "\"", ",", "\"",
    "l", "i", "n", "e", "\"", ":", "\"", "1", "2", "\"", "}">>

\* {"level":"info","message":"m","timestamp":"t","file":"a","line":2147483648}
L_line_too_big ==
  <<"{", "\"", "l", "e", "v", "e", "l", "\"", ":", "\"", "i", "n", "f", "o", "\"", ",",
    "\"", "m", "e", "s", "s", "a", "g", "e", "\"", ":", "\"", "m", "\"", ",", "\"",
    "t", "i", "m", "e", "s", "t", "a", "m", "p", "\"", ":", "\"", "t", "\"", ",", "\"",
    "f", "i", "l", "e", "\"", ":", "\"", "a", "\"", ",", "\"", "l", "i", "n", "e",
    "\"", ":", "2", "1", "4", "7", "4", "8", "3", "6", "4", "8", "}">>

\* ["info","hi","2024-01-01T00:00:00Z",null,null,null]
L_array_six ==
  <<"[", "\"", "i", "n", "f", "o", "\"", ",", "\"", "h", "i", "\"", ",", "\"", "2",
    "0", "2", "4", "-", "0", "1", "-", "0", "1", "T", "0", "0", ":", "0", "0", ":",
    "0", "0", "Z", "\"", ",", "n", "u", "l", "l", ",", "n", "u", "l", "l", ",", "n",
    "u", "l", "l", "]">>

\* ["info","hi","t"]
L_array_three ==
  <<"[", "\"", "i", "n", "f", "o", "\"", ",", "\"", "h", "i", "\"", ",", "\"", "t",
    "\"", "]">>

\* "info"
L_string_doc ==
  <<"\"", "i", "n", "f", "o", "\"">>

\* (the empty line)
L_empty ==
  <<>>

\* {}
L_empty_object ==
  <<"{", "}">>

\* {"level":"error","message":"a\nb","timestamp":"t"}
L_two_line_message ==
  <<"{", "\"", "l", "e", "v", "e", "l", "\"", ":", "\"", "e", "r", "r", "o", "r", "\"",
    ",", "\"", "m", "e", "s", "s", "a", "g", "e", "\"", ":", "\"", "a", "\\", "n", "b",
    "\"", ",", "\"", "t", "i", "m", "e", "s", "t", "a", "m", "p", "\"", ":", "\"", "t",
    "\"", "}">>

\* {"level":"info","message":"m","timestamp":"t"} x
L_trailing ==
  <<"{", "\"", "l", "e", "v", "e", "l", "\"", ":", "\"", "i", "n", "f", "o", "\"", ",",
    "\"", "m", "e", "s", "s", "a", "g", "e", "\"", ":", "\"", "m", "\"", ",", "\"",
    "t", "i", "m", "e", "s", "t", "a", "m", "p", "\"", ":", "\"", "t", "\"", "}", " ",
    "x">>

\* { "level":"info", "message":"m", "timestamp":"t", "pid":1 }
L_unknown_key ==
  <<"{", " ", "\"", "l", "e", "v", "e", "l", "\"", ":", "\"", "i", "n", "f", "o", "\"",
    ",", " ", "\"", "m", "e", "s", "s", "a", "g", "e", "\"", ":", "\"", "m", "\"", ",",
    " ", "\"", "t", "i", "m", "e", "s", "t", "a", "m", "p", "\"", ":", "\"", "t", "\"",
    ",", " ", "\"", "p", "i", "d", "\"", ":", "1", " ", "}">>

\* {"level":"info","level":"warn","message":"m","timestamp":"t"}
L_duplicate ==
  <<"{", "\"", "l", "e", "v", "e", "l", "\"", ":", "\"", "i", "n", "f", "o", "\"", ",",
    "\"", "l", "e", "v", "e", "l", "\"", ":", "\"", "w", "a", "r", "n", "\"", ",",
    "\"", "m", "e", "s", "s", "a", "g", "e", "\"", ":", "\"", "m", "\"", ",", "\"",
    "t", "i", "m", "e", "s", "t", "a", "m", "p", "\"", ":", "\"", "t", "\"", "}">>

\* {"level":"info","message":"m","timestamp":"t","file":null,"line":3}
L_file_null ==
  <<"{", "\"", "l", "e", "v", "e", "l", "\"", ":", "\"", "i", "n", "f", "o", "\"", ",",
    "\"", "m", "e", "s", "s", "a", "g", "e", "\"", ":", "\"", "m", "\"", ",", "\"",
    "t", "i", "m", "e", "s", "t", "a", "m", "p", "\"", ":", "\"", "t", "\"", ",", "\"",
    "f", "i", "l", "e", "\"", ":", "n", "u", "l", "l", ",", "\"", "l", "i", "n", "e",
    "\"", ":", "3", "}">>

\* {"level":"info","message":"m","timestamp":"t","metadata":null}
L_meta_null ==
  <<"{", "\"", "l", "e", "v", "e", "l", "\"", ":", "\"", "i", "n", "f", "o", "\"", ",",
    "\"", "m", "e", "s", "s", "a", "g", "e", "\"", ":", "\"", "m", "\"", ",", "\"",
    "t", "i", "m", "e", "s", "t", "a", "m", "p", "\"", ":", "\"", "t", "\"", ",", "\"",
    "m", "e", "t", "a", "d", "a", "t", "a", "\"", ":", "n", "u", "l", "l", "}">>

\* {"level":"info","message":"m","timestamp":"t","metadata":"x y"}
L_meta_scalar ==
  <<"{", "\"", "l", "e", "v", "e", "l", "\"", ":", "\"", "i", "n", "f", "o", "\"", ",",
    "\"", "m", "e", "s", "s", "a", "g", "e", "\"", ":", "\"", "m", "\"", ",", "\"",
    "t", "i", "m", "e", "s", "t", "a", "m", "p", "\"", ":", "\"", "t", "\"", ",", "\"",
    "m", "e", "t", "a", "d", "a", "t", "a", "\"", ":", "\"", "x", " ", "y", "\"", "}">>

\* {"level":"warn","message":"m","timestamp":"2024-02-29T23:59:59.123456-11:30"}
L_day_crossing ==
  <<"{", "\"", "l", "e", "v", "e", "l", "\"", ":", "\"", "w", "a", "r", "n", "\"", ",",
    "\"", "m", "e", "s", "s", "a", "g", "e", "\"", ":", "\"", "m", "\"", ",", "\"",
    "t", "i", "m", "e", "s", "t", "a", "m", "p", "\"", ":", "\"", "2", "0", "2", "4",
    "-", "0", "2", "-", "2", "9", "T", "2", "3", ":", "5", "9", ":", "5", "9", ".",
    "1", "2", "3", "4", "5", "6", "-", "1", "1", ":", "3", "0", "\"", "}">>

\* {"level":"info","message":"m","timestamp":"t"
L_truncated ==
  <<"{", "\"", "l", "e", "v", "e", "l", "\"", ":", "\"", "i", "n", "f", "o", "\"", ",",
    "\"", "m", "e", "s", "s", "a", "g", "e", "\"", ":", "\"", "m", "\"", ",", "\"",
    "t", "i", "m", "e", "s", "t", "a", "m", "p", "\"", ":", "\"", "t", "\"">>

\* {"level":"info","message":"m","timestamp":"t","metadata":["\u001b[0m","\b\f\/"]}
L_esc_metadata ==
  <<"{", "\"", "l", "e", "v", "e", "l", "\"", ":", "\"", "i", "n", "f", "o", "\"", ",",
    "\"", "m", "e", "s", "s", "a", "g", "e", "\"", ":", "\"", "m", "\"", ",", "\"",
    "t", "i", "m", "e", "s", "t", "a", "m", "p", "\"", ":", "\"", "t", "\"", ",", "\"",
    "m", "e", "t", "a", "d", "a", "t", "a", "\"", ":", "[", "\"", "\\", "u", "0", "0",
    "1", "b", "[", "0", "m", "\"", ",", "\"", "\\", "b", "\\", "f", "\\", "/", "\"",
    "]", "}">>

\* {"level":"info","message":"a\u001B[0mb","timestamp":"t"}
L_esc_message ==
  <<"{", "\"", "l", "e", "v", "e", "l", "\"", ":", "\"", "i", "n", "f", "o", "\"", ",",
    "\"", "m", "e", "s", "s", "a", "g", "e", "\"", ":", "\"", "a", "\\", "u", "0", "0",
    "1", "B", "[", "0", "m", "b", "\"", ",", "\"", "t", "i", "m", "e", "s", "t", "a",
    "m", "p", "\"", ":", "\"", "t", "\"", "}">>

\* {"level":"a\nb","message":"c\nd","timestamp":"t"}
L_two_line_level ==
  <<"{", "\"", "l", "e", "v", "e", "l", "\"", ":", "\"", "a", "\\", "n", "b", "\"",
    ",", "\"", "m", "e", "s", "s", "a", "g", "e", "\"", ":", "\"", "c", "\\", "n", "d",
    "\"", ",", "\"", "t", "i", "m", "e", "s", "t", "a", "m", "p", "\"", ":", "\"", "t",
    "\"", "}">>

\* {"level":"info","x":[[{"metadata":[1]}],","],"message":"m","timestamp":"t"}
L_unknown_nested ==
  <<"{", "\"", "l", "e", "v", "e", "l", "\"", ":", "\"", "i", "n", "f", "o", "\"", ",",
    "\"", "x", "\"", ":", "[", "[", "{", "\"", "m", "e", "t", "a", "d", "a", "t", "a",
    "\"", ":", "[", "1", "]", "}", "]", ",", "\"", ",", "\"", "]", ",", "\"", "m", "e",
    "s", "s", "a", "g", "e", "\"", ":", "\"", "m", "\"", ",", "\"", "t", "i", "m", "e",
    "s", "t", "a", "m", "p", "\"", ":", "\"", "t", "\"", "}">>

\* A line of 1024 letters x, the size of standard output's buffer.
L_long_raw == [i \in 1..1024 |-> "x"]

\* {"level":"x","message":"m","timestamp":"t","metadata":[[...]]} with 127
\* arrays inside one another: with the object, a depth of 128.
L_meta_depth_128 ==
  <<"{", "\"", "l", "e", "v", "e", "l", "\"", ":", "\"", "x", "\"", ",", "\"", "m",
    "e", "s", "s", "a", "g", "e", "\"", ":", "\"", "m", "\"", ",", "\"", "t", "i", "m",
    "e", "s", "t", "a", "m", "p", "\"", ":", "\"", "t", "\"", ",", "\"", "m", "e", "t",
    "a", "d", "a", "t", "a", "\"", ":">>
    \o [i \in 1..127 |-> "["] \o [i \in 1..127 |-> "]"] \o <<"}">>

\* The lines a one-line file is drawn from.
Pool ==
  {L_boom, L_both, L_file_only, L_line_only,
   L_meta_unsorted, L_meta_sorted, L_upper, L_level_empty,
   L_level_spaced, L_level_long, L_level_two, L_level_one,
   L_level_three, L_raw, L_no_timestamp, L_level_number,
   L_line_string, L_line_too_big, L_array_six, L_array_three,
   L_string_doc, L_empty, L_empty_object, L_two_line_message,
   L_trailing, L_unknown_key, L_duplicate, L_file_null,
   L_meta_null, L_meta_scalar, L_day_crossing, L_truncated,
   L_esc_metadata, L_esc_message, L_two_line_level, L_unknown_nested,
   L_long_raw, L_meta_depth_128}


\* What one read of the file yields: a line of text, or an error for a line
\* that is not UTF-8 (its bytes are consumed).
TextLine(l) == [ok |-> TRUE, text |-> l]
BadUtf8 == [ok |-> FALSE, text |-> <<>>]

\* The longest file of several lines.
MaxLines == 2
\* The count of discarded reads wraps at this value.
DropWrap == 2

\* The reads a file of several lines is drawn from.
FileReads == {TextLine(L_boom), TextLine(L_raw), TextLine(L_two_line_message), BadUtf8}

Files ==
  {<<TextLine(l)>> : l \in Pool}
    \cup UNION {[1..n -> FileReads] : n \in 0..MaxLines}

\* The offsets of the Local zone, minutes east of UTC.
LocalOffsets == {0, 330, -300}

\* Standard output takes every byte written to it.
Unlimited == -1
\* The bytes standard output takes before writes to it fail: none (/dev/full,
\* a closed pipe), a file's size limit, or no limit.
OutputRooms == {Unlimited, 0, 11}

VARIABLES
  args,      \* argv[1]: "none", "nonunicode" (not valid Unicode) or "path"
  node,      \* what the path names: "missing" (cannot be opened), "dir", "file"
  content,   \* the reads of the file, in order
  colorize,  \* whether colored emits ANSI sequences
  err_ok,    \* whether the error stream takes what is written to it
  room,      \* the bytes standard output still takes, or Unlimited
  tz,        \* the offset of the Local zone
  pc,        \* "start", "loop", "print" (inside println!), "done" (main
             \* returned), "panicked"
  pos,       \* the reads consumed
  dropped,   \* the Err items flatten has discarded, modulo DropWrap
  pending,   \* the writes of the println! under way that are not yet made
  stdout,    \* the characters written to standard output
  stderr,    \* the lines written to the error stream
  trace      \* per line the loop body ran on: what Render gave

vars ==
  <<args, node, content, colorize, err_ok, room, tz, pc, pos, dropped, pending,
    stdout, stderr, trace>>
env == <<args, node, content, colorize, err_ok, tz>>

Init ==
  /\ args \in {"none", "nonunicode", "path"}
  /\ node \in {"missing", "dir", "file"}
  /\ content \in Files
  /\ (args # "path" => node = "missing")
  /\ (node # "file" => content = <<>>)
  /\ colorize \in BOOLEAN
  /\ err_ok \in BOOLEAN
  /\ room \in OutputRooms
  /\ tz \in LocalOffsets
  /\ pc = "start"
  /\ pos = 0
  /\ dropped = 0
  /\ pending = <<>>
  /\ stdout = <<>>
  /\ stderr = <<>>
  /\ trace = <<>>

\* The error stream after a panic: the report, when the stream takes it.
Panicked(err) == IF err_ok THEN Append(err, PanicMessage) ELSE err

\* env::args().nth(1) is None: the diagnostic, and return.
NoInput ==
  /\ pc = "start" /\ args = "none" /\ err_ok
  /\ stderr' = Append(stderr, NoInputMessage)
  /\ pc' = "done"
  /\ UNCHANGED <<env, room, pending, pos, dropped, stdout, trace>>

\* env::args().nth(1) is None and the error stream cannot be written (it is
\* /dev/full, a closed pipe): eprintln! panics.
NoInputPanic ==
  /\ pc = "start" /\ args = "none" /\ ~err_ok
  /\ stderr' = Panicked(stderr)
  /\ pc' = "panicked"
  /\ UNCHANGED <<env, room, pending, pos, dropped, stdout, trace>>

\* env::args() panics on an argument that is not valid Unicode.
ArgsPanic ==
  /\ pc = "start" /\ args = "nonunicode"
  /\ stderr' = Panicked(stderr)
  /\ pc' = "panicked"
  /\ UNCHANGED <<env, room, pending, pos, dropped, stdout, trace>>

\* The reader of standard output goes away (a pipe is closed) while main
\* runs, also between two writes of one println!.
OutputCloses ==
  /\ pc \in {"start", "loop", "print"} /\ room # 0
  /\ room' = 0
  /\ UNCHANGED <<env, pc, pos, dropped, pending, stdout, stderr, trace>>

\* read_lines returns Err: the if let does not match, main returns.
OpenFail ==
  /\ pc = "start" /\ args = "path" /\ node = "missing"
  /\ pc' = "done"
  /\ UNCHANGED <<env, room, pending, pos, dropped, stdout, stderr, trace>>

\* read_lines returns Ok(lines): File::open succeeds, also on a directory.
OpenOk ==
  /\ pc = "start" /\ args = "path" /\ node \in {"file", "dir"}
  /\ pc' = "loop"
  /\ UNCHANGED <<env, room, pending, pos, dropped, stdout, stderr, trace>>

\* lines.next() is Some(Ok(line)): the loop body decodes and formats the
\* line and enters println! with the writes to make.
PrintLine ==
  /\ pc = "loop" /\ node = "file" /\ pos < Len(content)
  /\ content[pos + 1].ok
  /\ \E r \in {Render(content[pos + 1].text, tz, colorize)} :
       /\ trace' = Append(trace, [f \in {"line", "decoded", "color", "fmt", "out"} |-> r[f]])
       /\ pending' = r.writes
  /\ pos' = pos + 1
  /\ pc' = "print"
  /\ UNCHANGED <<env, room, dropped, stdout, stderr>>

\* Whether standard output takes the whole of the write b.
Fits(b) == room = Unlimited \/ Len(b) <= room

\* println! makes its next write, and returns to the loop after the last.
WriteOut ==
  /\ pc = "print" /\ Fits(Head(pending))
  /\ stdout' = stdout \o Head(pending)
  /\ room' = IF room = Unlimited THEN room ELSE room - Len(Head(pending))
  /\ pending' = Tail(pending)
  /\ pc' = IF Tail(pending) = <<>> THEN "loop" ELSE "print"
  /\ UNCHANGED <<env, pos, dropped, stderr, trace>>

\* The next write of println! fails (standard output is /dev/full, a closed
\* pipe, a file at its size limit) after the bytes there was room for:
\* println! panics.
PrintPanic ==
  /\ pc = "print" /\ ~Fits(Head(pending))
  /\ stdout' = stdout \o SubSeq(Head(pending), 1, room)
  /\ room' = 0
  /\ stderr' = Panicked(stderr)
  /\ pc' = "panicked"
  /\ UNCHANGED <<env, pos, dropped, pending, trace>>

\* lines.next() is Some(Err(_)) for a line that is not UTF-8: flatten drops
\* it; the line's bytes are consumed.
DropBadLine ==
  /\ pc = "loop" /\ node = "file" /\ pos < Len(content)
  /\ ~content[pos + 1].ok
  /\ pos' = pos + 1
  /\ dropped' = (dropped + 1) % DropWrap
  /\ UNCHANGED <<env, room, pending, pc, stdout, stderr, trace>>

\* lines.next() is Some(Err(_)) for a read that fails (a directory: EISDIR):
\* flatten drops it; nothing is consumed, the next read fails the same way.
DropReadError ==
  /\ pc = "loop" /\ node = "dir"
  /\ dropped' = (dropped + 1) % DropWrap
  /\ UNCHANGED <<env, room, pending, pc, pos, stdout, stderr, trace>>

\* lines.next() is None: the loop ends, main returns.
EndOfFile ==
  /\ pc = "loop" /\ node = "file" /\ pos = Len(content)
  /\ pc' = "done"
  /\ UNCHANGED <<env, room, pending, pos, dropped, stdout, stderr, trace>>

Next ==
  \/ NoInput
  \/ NoInputPanic
  \/ ArgsPanic
  \/ OutputCloses
  \/ OpenFail
  \/ OpenOk
  \/ PrintLine
  \/ WriteOut
  \/ PrintPanic
  \/ DropBadLine
  \/ DropReadError
  \/ EndOfFile

Spec == Init /\ [][Next]_vars

\* main is one thread that runs to its end: a step that can be taken is taken.
FairSpec == Spec /\ WF_vars(Next)

(***************************************************************************)
(* Properties                                                              *)
(***************************************************************************)
\* The lines the loop body has run on so far and println! has written in
\* full: the last of trace is left out while its writes are pending.
Printed == 1..(Len(trace) - (IF pending = <<>> THEN 0 ELSE 1))

\* Whether the line is a JSON document that is an object.
IsObjectLine(line) == ParseDocument(line).ok /\ ParseDocument(line).v.t = "obj"

\* C1: a line that does not decode as a LogLine, and every line that is not
\* an object of the record shape, is printed as it was read: the same text,
\* no colour, no reformatting.
C1_PassThrough ==
  \A k \in Printed :
    (~from_str(trace[k].line).ok \/ ~IsObjectLine(trace[k].line)) =>
      trace[k].out = trace[k].line /\ trace[k].color = "none"

\* C2: a decoded record with both file and line is laid out as
\* <time>|<level>|<file>:<line>: <message> <metadata>, and one that lacks
\* file or line (or both) as <time>|<level>: <message> <metadata>.
C2_Layout ==
  /\ \A k \in Printed : trace[k].decoded =>
       \E v \in {from_str(trace[k].line).v} :
         LET head == Paint(to_local_time(v.timestamp, tz), "magenta", colorize)
                       \o <<"|">> \o Center(v.level, 5)
             tail == <<":", " ">> \o v.message \o <<" ">> \o metadata_to_string(v.metadata)
         IN IF v.file.some /\ v.line.some
            THEN trace[k].fmt = head \o <<"|">> \o Paint(v.file.v, "blue", colorize)
                                  \o <<":">> \o Paint(to_string_i32(v.line.v), "blue", colorize)
                                  \o tail
            ELSE trace[k].fmt = head \o tail
  /\ \A k \in Printed : (trace[k].line = L_file_only /\ ~colorize /\ tz = 0) =>
       trace[k].fmt = <<"2", "0", "2", "4", "-", "0", "1", "-", "0", "1", "T", "0", "0", ":", "0", "0", ":", "0",
           "0", ".", "0", "0", "0", "Z", "|", "w", "a", "r", "n", " ", ":", " ", "w", " ">>
  /\ \A k \in Printed : (trace[k].line = L_both /\ ~colorize /\ tz = 0) =>
       trace[k].fmt = <<"2", "0", "2", "4", "-", "0", "3", "-", "1", "0", "T", "2", "1", ":", "3", "0", ":", "0",
           "0", ".", "5", "0", "0", "Z", "|", "i", "n", "f", "o", " ", "|", "a", ".", "j", "s", ":",
           "1", "2", ":", " ", "h", "i", " ">>

\* A record with a file and no line has been printed in the short layout.
C2_FileOnlyPrinted ==
  \E k \in Printed :
    /\ trace[k].line = L_file_only /\ ~colorize /\ tz = 0
    /\ from_str(trace[k].line).v.file.some /\ ~from_str(trace[k].line).v.line.some
    /\ trace[k].fmt = <<"2", "0", "2", "4", "-", "0", "1", "-", "0", "1", "T", "0", "0", ":", "0", "0", ":", "0",
           "0", ".", "0", "0", "0", "Z", "|", "w", "a", "r", "n", " ", ":", " ", "w", " ">>

\* The characters of standard output that end a line.
LineEnds == {i \in 1..Len(stdout) : stdout[i] = NEWLINE}

\* C3: whenever no println! is under way or has failed, standard output holds
\* as many lines as the line source delivered, the k-th of them the rendering
\* of the k-th delivered line; no line is split.
C3_OneLinePerLine ==
  pending = <<>> =>
    /\ Cardinality(LineEnds) = Len(trace)
    /\ \A k \in Printed : NEWLINE \notin {trace[k].out[i] : i \in 1..Len(trace[k].out)}
    /\ stdout = Concat([k \in 1..Len(trace) |-> trace[k].out \o <<NEWLINE>>])

\* C4: once the file is open, main comes to its end, whatever the reads of
\* the file give.
C4_Terminates == [](pc = "loop" => <>(pc \in {"done", "panicked"}))

\* C5: the severity colour is green for info, yellow for warn, red for error,
\* cyan for debug, compared exactly, and none for every other label; main
\* paints the formatted line in it exactly for those four labels.
C5_SeverityColor ==
  \A k \in Printed : trace[k].decoded =>
    \E v \in {from_str(trace[k].line).v} :
      \E c \in {IF v.level = <<"i", "n", "f", "o">> THEN <<"green", "3", "2">>
                ELSE IF v.level = <<"w", "a", "r", "n">> THEN <<"yellow", "3", "3">>
                ELSE IF v.level = <<"e", "r", "r", "o", "r">> THEN <<"red", "3", "1">>
                ELSE IF v.level = <<"d", "e", "b", "u", "g">> THEN <<"cyan", "3", "6">>
                ELSE <<"none", "3", "5">>} :
        /\ trace[k].color = c[1]
        /\ trace[k].out = IF c[1] = "none" THEN trace[k].fmt
                          ELSE Paint(trace[k].fmt, c[1], colorize)
        /\ colorize => IsPrefix(<<ESC, "[", c[2], c[3], "m">>, trace[k].out)
        /\ (colorize /\ c[1] # "none") =>
             IsPrefix(<<ESC, "[", c[2], c[3], "m", ESC, "[", "3", "5", "m">>, trace[k].out)
        /\ ~colorize => trace[k].out = trace[k].fmt

\* A record whose level is INFO has been printed with colouring on, without a
\* severity colour.
C5_UpperCasePrinted ==
  \E k \in Printed :
    /\ trace[k].line = L_upper /\ colorize
    /\ trace[k].color = "none"
    /\ trace[k].out = trace[k].fmt

\* C6: when no line source is obtained main writes nothing to standard output
\* and exits normally; the error stream holds "No input." exactly when the
\* argument is absent, and nothing when the file cannot be opened.
C6_NoLineSource ==
  (pc \in {"done", "panicked"} /\ (args # "path" \/ node = "missing")) =>
    /\ pc = "done"
    /\ stdout = <<>>
    /\ stderr = IF args = "none" THEN <<NoInputMessage>> ELSE <<>>

\* The local time of 2024-01-01T00:00:00Z in the zones of LocalOffsets.
BoomTime ==
  IF tz = 0 THEN <<"2", "0", "2", "4", "-", "0", "1", "-", "0", "1", "T", "0", "0", ":", "0", "0", ":", "0",
      "0", ".", "0", "0", "0", "Z">>
  ELSE IF tz = 330 THEN <<"2", "0", "2", "4", "-", "0", "1", "-", "0", "1", "T", "0", "5", ":", "3", "0", ":", "0",
      "0", ".", "0", "0", "0", "+", "0", "5", ":", "3", "0">>
  ELSE <<"2", "0", "2", "3", "-", "1", "2", "-", "3", "1", "T", "1", "9", ":", "0", "0", ":", "0",
      "0", ".", "0", "0", "0", "-", "0", "5", ":", "0", "0">>

\* C7 as stated: the example line is printed in red as <local-time>| error: boom
\* with a space between the bar and the label.
C7_Stated ==
  \A k \in Printed : trace[k].line = L_boom =>
    /\ trace[k].color = "red"
    /\ trace[k].fmt = Paint(BoomTime, "magenta", colorize) \o <<"|", " ", "e", "r", "r", "o", "r", ":", " ", "b", "o", "o", "m", " ">>

\* C7 amended: the example line is printed in red as <local-time>|error: boom
\* and one trailing space; error fills the level field, so nothing pads it.
C7_Boom ==
  \A k \in Printed : trace[k].line = L_boom =>
    /\ trace[k].color = "red"
    /\ trace[k].out =
         IF colorize
         THEN <<ESC, "[", "3", "1", "m", ESC, "[", "3", "5", "m">> \o BoomTime
                \o <<ESC, "[", "0", "m", ESC, "[", "3", "1", "m">> \o <<"|", "e", "r", "r", "o", "r", ":", " ", "b", "o", "o", "m", " ">>
                \o <<ESC, "[", "0", "m">>
         ELSE BoomTime \o <<"|", "e", "r", "r", "o", "r", ":", " ", "b", "o", "o", "m", " ">>

\* The example line has been printed, in UTC and with colouring on.
C7_BoomPrinted ==
  \E k \in Printed :
    /\ trace[k].line = L_boom /\ tz = 0 /\ colorize
    /\ trace[k].decoded
    /\ IsPrefix(<<ESC, "[", "3", "1", "m">>, trace[k].out)

\* C8: the level field is max(5, n) characters wide for a label of n
\* characters: floor((5 - n) / 2) spaces, the label, the rest of the spaces;
\* a label of 5 or more characters stands as it is.
C8_LevelField ==
  \A k \in Printed : trace[k].decoded =>
    \E v \in {from_str(trace[k].line).v} :
      LET n == Len(v.level)
          t == Len(Paint(to_local_time(v.timestamp, tz), "magenta", colorize))
          w == IF n > 5 THEN n ELSE 5
          left == IF n < 5 THEN (5 - n) \div 2 ELSE 0
      IN /\ Len(trace[k].fmt) >= t + 2 + w
         /\ trace[k].fmt[t + 1] = "|"
         /\ \A i \in 1..w :
              trace[k].fmt[t + 1 + i] =
                IF i > left /\ i <= left + n THEN v.level[i - left] ELSE " "
         /\ trace[k].fmt[t + 2 + w] \in {":", "|"}

\* A record with the two-character level ok has been printed: one space
\* before the label, two after.
C8_UnevenPadding ==
  \E k \in Printed :
    /\ trace[k].line = L_level_two
    /\ trace[k].decoded
    /\ from_str(trace[k].line).v.level = <<"o", "k">>
    /\ ~colorize
    /\ IsPrefix(<<"2", "0", "2", "4", "-", "0", "1", "-", "0", "1", "T", "0", "0", ":", "0", "0", ":", "0",
      "0", "|", " ", "o", "k", " ", " ", ":", " ", "m", " ">>, trace[k].fmt)

\* C9: a timestamp that does not parse as an RFC 3339 date-time with an offset
\* is shown as it was given; one that parses is shown as local time with
\* milliseconds.
C9_TimeShown ==
  /\ \A k \in Printed : trace[k].decoded =>
       \E v \in {from_str(trace[k].line).v} :
         \E p \in {parse_from_rfc3339(v.timestamp)} :
           IsPrefix(Paint(IF p.ok THEN to_rfc3339_opts(with_timezone(p, tz))
                          ELSE v.timestamp, "magenta", colorize) \o <<"|">>,
                    trace[k].fmt)
  /\ \A k \in Printed : (trace[k].line = L_line_only /\ ~colorize) =>
       IsPrefix(<<"y", "e", "s", "t", "e", "r", "d", "a", "y", "|", "d", "e", "b", "u", "g", ":", " ", "d",
      " ">>, trace[k].fmt)

\* A record whose timestamp is the word yesterday has been printed.
C9_UnparsedPrinted ==
  \E k \in Printed :
    /\ trace[k].line = L_line_only
    /\ trace[k].decoded
    /\ ~parse_from_rfc3339(from_str(trace[k].line).v.timestamp).ok

\* The metadata of a decoded line as it stands in the input: the value of the
\* metadata member of an object, the sixth element of an array.
RawMetadata(line) ==
  LET doc == ParseDocument(line).v IN
  IF doc.t = "obj"
  THEN doc.items[CHOOSE i \in 1..Len(doc.items) : doc.items[i][1] = F_metadata][2]
  ELSE doc.items[6]

\* C10: present metadata is shown as its compact encoding with the object keys
\* and the elements in the order of the input; absent metadata as nothing,
\* the line then ending with the message and one space.
C10_MetadataInInputOrder ==
  \A k \in Printed : trace[k].decoded =>
    \E v \in {from_str(trace[k].line).v} :
      \E shown \in {IF v.metadata.some THEN ToJson(RawMetadata(trace[k].line)) ELSE <<>>} :
        /\ Len(trace[k].fmt) >= Len(v.message) + 1 + Len(shown)
        /\ SubSeq(trace[k].fmt, Len(trace[k].fmt) - Len(v.message) - Len(shown),
                  Len(trace[k].fmt))
             = v.message \o <<" ">> \o shown

====
